---- MODULE Spec2Model ----
(***************************************************************************)
(* Model of the Minesweeper knowledge-base engine of                       *)
(* "Project 1/minesweeper/minesweeper.py": class Sentence, class           *)
(* MinesweeperAI and the queries Minesweeper.nearby_mines / is_mine that   *)
(* feed it.  A cell is the pair <<i, j>> with 0 <= i < Height and          *)
(* 0 <= j < Width.  A Sentence is the record [cells, count].               *)
(*                                                                         *)
(* add_knowledge is modelled statement by statement: the program counter   *)
(* pc walks through steps 1-3 (add_knowledge), the while loop of step 4    *)
(* (WhileTest, ForSafes, ForMines) and step 5 (Infer).  A loop test that   *)
(* changes nothing is taken together with the step before it.  No other    *)
(* operation can start while pc # "idle", so a call always runs as one     *)
(* uninterrupted sequence, as in the single-threaded program.              *)
(*                                                                         *)
(* Specifications: Spec (a game on a fixed board), SpecAny (any caller of  *)
(* add_knowledge) and SpecAnyFair (the same with the running call making   *)
(* progress), SpecMarks (any caller of add_knowledge, mark_mine and        *)
(* mark_safe), SpecQuery (add_knowledge with make_safe_move and            *)
(* make_random_move asked between calls), SpecSentence (known_mines and    *)
(* known_safes of one Sentence), SpecPrune (a game run call by call next  *)
(* to an engine that drops its empty Sentences) and SpecOrder (any caller  *)
(* of add_knowledge, each call compared with the state it started from).   *)
(*                                                                         *)
(* The module also models "Project 0/tictaktoe/tictactoe.py": the board    *)
(* functions and minimax with its alpha-beta search dfs.  SpecTTT is a     *)
(* game of tic-tac-toe in which minimax is asked for a move.               *)
(***************************************************************************)
EXTENDS Integers, FiniteSets, Sequences, TLC

\* Bounds of the model
Height   == 2      \* rows of the grid
Width    == 3      \* columns of the grid
MaxMines == 2      \* at most this many mines on the board
MaxMoves == 3      \* at most this many add_knowledge calls of a game
MaxCalls == 2      \* at most this many add_knowledge calls of an arbitrary caller
MaxCount == 3      \* an arbitrary caller reports a count in 0..MaxCount
MaxEmpty == 3      \* minimax is called on boards with at most this many empty cells

VARIABLES
    board,        \* Minesweeper.board, as the set of cells that hold a mine
    moves_made,   \* MinesweeperAI.moves_made
    mines,        \* MinesweeperAI.mines
    safes,        \* MinesweeperAI.safes
    knowledge,    \* MinesweeperAI.knowledge: a list of Sentences
    pc,           \* position inside add_knowledge ("idle" between calls)
    cell,         \* argument cell of the current / last add_knowledge call
    count,        \* argument count of the current / last add_knowledge call
    updatesDone,  \* local updatesDone of step 4
    allSafes,     \* local allSafes: the cells `for safe_cell in allSafes` has yet to visit
    allMines,     \* local allMines: the cells `for mine_cell in allMines` has yet to visit
    inferences,   \* local inferences of step 5 (of the last call)
    calls,        \* number of calls of add_knowledge, mark_mine, mark_safe made so far
    raised,       \* TRUE iff an add_knowledge call ended by raising an exception
    last,         \* the last call made on the MinesweeperAI: method, argument, and
                  \* (for mark_mine, mark_safe) whether it repeats the call before it
    ret,          \* value returned by the last call: a cell (NoCell for None) from
                  \* make_safe_move / make_random_move, a set object from
                  \* known_mines / known_safes, else NoCell
    pruned,       \* a second engine that is given the same add_knowledge calls and
                  \* drops its empty Sentences after each call: its safes, mines
                  \* and knowledge
    ttt,          \* tictactoe.py: the board list of the game being played and the
                  \* value the last minimax(board) call returned
    start         \* the arguments of the add_knowledge call being followed and the
                  \* engine's safes, mines and knowledge when it was made

vars == <<board, moves_made, mines, safes, knowledge, pc, cell, count,
          updatesDone, allSafes, allMines, inferences, calls, raised,
          last, ret, pruned, ttt, start>>

Cells == (0 .. Height - 1) \X (0 .. Width - 1)

\* Stands for None where a cell is expected
NoCell == <<-1, -1>>

\* The record kept in `last` for a call of method m with argument c
Call(m, c) == [op |-> m, arg |-> c, again |-> (last.op = m /\ last.arg = c)]

----------------------------------------------------------------------------
\* tictactoe.py.  A board is a function from the positions (i, j), 0 <= i, j
\* <= 2, to X, O or EMPTY; board[i][j] of the source is b[<<i, j>>].

X == "X"

O == "O"

\* EMPTY = None
EMPTY == "EMPTY"

Positions == (0 .. 2) \X (0 .. 2)

initial_state == [p \in Positions |-> EMPTY]

\* Stands for "minimax has not been called on this board"
NoCall == <<-2, -2>>

player(b) ==
    LET countX == Cardinality({ p \in Positions : b[p] = X })
        countO == Cardinality({ p \in Positions : b[p] = O })
    IN IF countX <= countO THEN X ELSE O

actions(b) == { p \in Positions : b[p] = EMPTY }

\* result(board, action) for an action that raises no ValueError
result(b, action) == [b EXCEPT ![action] = player(b)]

winnerHelper(b, actor) ==
    \/ \E i \in 0 .. 2 : b[<<i, 0>>] = actor /\ b[<<i, 1>>] = actor /\ b[<<i, 2>>] = actor
    \/ \E j \in 0 .. 2 : b[<<0, j>>] = actor /\ b[<<1, j>>] = actor /\ b[<<2, j>>] = actor
    \/ b[<<0, 0>>] = actor /\ b[<<1, 1>>] = actor /\ b[<<2, 2>>] = actor
    \/ b[<<2, 0>>] = actor /\ b[<<1, 1>>] = actor /\ b[<<0, 2>>] = actor

\* winner: X, O or EMPTY (None)
winner(b) ==
    IF winnerHelper(b, X) THEN X
    ELSE IF winnerHelper(b, O) THEN O
    ELSE EMPTY

terminal(b) ==
    IF winner(b) # EMPTY THEN TRUE
    ELSE \A p \in Positions : b[p] # EMPTY

utility(b) ==
    IF winner(b) = X THEN 1
    ELSE IF winner(b) = O THEN -1
    ELSE 0

Min(a, b) == IF a < b THEN a ELSE b

Max(a, b) == IF a > b THEN a ELSE b

\* What a dfs call leaves behind: the tuple it returns, (val, i, j), and the
\* board list, which it writes in place
Dfs(v, i, j, b) == [val |-> v, i |-> i, j |-> j, board |-> b]

\* dfs(board, minmax, alpha, beta): the set of outcomes the call can have.
\* `for move in moves` visits a set, in an order the program does not
\* control; dfs_for gives the outcomes of the loop with the moves of rem
\* still to visit and finalVal = fv.
RECURSIVE dfs(_, _, _, _)
RECURSIVE dfs_for(_, _, _, _, _, _)
\* dfs_body with a tie replacing finalVal
dfs_body_nonstrict(minmax, alpha, beta, rem, fv, move, temp, r) ==
    IF minmax = 0
    THEN IF r.val <= fv.val
         THEN IF r.val <= alpha
              THEN { Dfs(r.val, move[1], move[2], [r.board EXCEPT ![move] = temp]) }
              ELSE dfs_for([r.board EXCEPT ![move] = temp], minmax, alpha,
                           Min(beta, r.val), rem \ {move},
                           Dfs(r.val, move[1], move[2], r.board))
         ELSE IF fv.val <= alpha
              THEN { [fv EXCEPT !.board = [r.board EXCEPT ![move] = temp]] }
              ELSE dfs_for([r.board EXCEPT ![move] = temp], minmax, alpha,
                           Min(beta, r.val), rem \ {move}, fv)
    ELSE IF r.val >= fv.val
         THEN IF r.val >= beta
              THEN { Dfs(r.val, move[1], move[2], [r.board EXCEPT ![move] = temp]) }
              ELSE dfs_for([r.board EXCEPT ![move] = temp], minmax,
                           Max(alpha, r.val), beta, rem \ {move},
                           Dfs(r.val, move[1], move[2], r.board))
         ELSE IF fv.val >= beta
              THEN { [fv EXCEPT !.board = [r.board EXCEPT ![move] = temp]] }
              ELSE dfs_for([r.board EXCEPT ![move] = temp], minmax,
                           Max(alpha, r.val), beta, rem \ {move}, fv)

\* The rest of one iteration of the loop, once the recursive call on the
\* board with `move` played has had the outcome r; temp is what the cell
\* held before the move was played
dfs_body(minmax, alpha, beta, rem, fv, move, temp, r) ==
    IF minmax = 0
    THEN IF r.val < fv.val
         THEN IF r.val <= alpha
              THEN { Dfs(r.val, move[1], move[2], [r.board EXCEPT ![move] = temp]) }
              ELSE dfs_for([r.board EXCEPT ![move] = temp], minmax, alpha,
                           Min(beta, r.val), rem \ {move},
                           Dfs(r.val, move[1], move[2], r.board))
         ELSE IF fv.val <= alpha
              THEN { [fv EXCEPT !.board = [r.board EXCEPT ![move] = temp]] }
              ELSE dfs_for([r.board EXCEPT ![move] = temp], minmax, alpha,
                           Min(beta, r.val), rem \ {move}, fv)
    ELSE IF r.val > fv.val
         THEN IF r.val >= beta
              THEN { Dfs(r.val, move[1], move[2], [r.board EXCEPT ![move] = temp]) }
              ELSE dfs_for([r.board EXCEPT ![move] = temp], minmax,
                           Max(alpha, r.val), beta, rem \ {move},
                           Dfs(r.val, move[1], move[2], r.board))
         ELSE IF fv.val >= beta
              THEN { [fv EXCEPT !.board = [r.board EXCEPT ![move] = temp]] }
              ELSE dfs_for([r.board EXCEPT ![move] = temp], minmax,
                           Max(alpha, r.val), beta, rem \ {move}, fv)

dfs_for(b, minmax, alpha, beta, rem, fv) ==
    IF rem = {} THEN { [fv EXCEPT !.board = b] }
    ELSE UNION { dfs_body(minmax, alpha, beta, rem, fv, q[1], b[q[1]], q[2]) :
                   q \in UNION { {move} \X dfs([b EXCEPT ![move] = IF minmax = 0 THEN O ELSE X],
                                               1 - minmax, alpha, beta) : move \in rem } }

dfs(b, minmax, alpha, beta) ==
    IF terminal(b) THEN { Dfs(utility(b), 0, 0, b) }
    ELSE dfs_for(b, minmax, alpha, beta, actions(b),
                 Dfs(IF minmax = 0 THEN 100 ELSE -100, 0, 0, b))

\* minimax(board): the outcomes the call can have, as the value returned
\* (NoCell for None) and the board list after the call
minimax(b) ==
    IF terminal(b) THEN { [move |-> NoCell, board |-> b] }
    ELSE { [move |-> <<rec.i, rec.j>>, board |-> rec.board] :
             rec \in IF player(b) = X THEN dfs(b, 1, -100, 100) ELSE dfs(b, 0, -100, 100) }

----------------------------------------------------------------------------
\* class Minesweeper

\* nearby_mines: number of mines within one row and column of c, c excluded
nearby_mines(c) ==
    Cardinality({ n \in ((c[1] - 1) .. (c[1] + 1)) \X ((c[2] - 1) .. (c[2] + 1)) :
                    /\ n # c
                    /\ 0 <= n[1] /\ n[1] < Height /\ 0 <= n[2] /\ n[2] < Width
                    /\ n \in board })

is_mine(c) == c \in board

----------------------------------------------------------------------------
\* class Sentence

Sentence(cs, n) == [cells |-> cs, count |-> n]

\* __eq__: same cell set and same count
Sentence_eq(s, t) == s.cells = t.cells /\ s.count = t.count

\* known_mines with the comparison written >= (for a positive count)
known_mines_geq(s) == IF Cardinality(s.cells) >= s.count /\ s.count > 0 THEN s.cells ELSE {}

known_mines(s) == IF Cardinality(s.cells) = s.count THEN s.cells ELSE {}

known_safes(s) == IF s.count = 0 THEN s.cells ELSE {}

\* mark_mine that forgets `self.count -= 1`
Sentence_mark_mine_keepcount(s, c) ==
    IF c \in s.cells THEN [cells |-> s.cells \ {c}, count |-> s.count] ELSE s

\* mark_mine without the membership test (discard, then decrement)
Sentence_mark_mine_always(s, c) == [cells |-> s.cells \ {c}, count |-> s.count - 1]

Sentence_mark_mine(s, c) ==
    IF c \in s.cells THEN [cells |-> s.cells \ {c}, count |-> s.count - 1] ELSE s

\* mark_safe with the membership test negated and the cell added
Sentence_mark_safe_add(s, c) ==
    IF c \notin s.cells THEN [cells |-> s.cells \cup {c}, count |-> s.count] ELSE s

\* mark_safe that keeps the last cell of a Sentence
Sentence_mark_safe_keeplast(s, c) ==
    IF c \in s.cells /\ Cardinality(s.cells) > 1
    THEN [s EXCEPT !.cells = s.cells \ {c}]
    ELSE s

Sentence_mark_safe(s, c) ==
    IF c \in s.cells THEN [cells |-> s.cells \ {c}, count |-> s.count] ELSE s

----------------------------------------------------------------------------
\* class MinesweeperAI

\* mark_mine that does not loop over the knowledge base
mark_mine_all_noloop(kb, c) == kb

\* mark_mine / mark_safe: the loop over self.knowledge, applied to a list kb
mark_mine_all(kb, c) == [i \in 1 .. Len(kb) |-> Sentence_mark_mine(kb[i], c)]

\* AI.mark_safe's loop calling sentence.mark_mine
mark_safe_all_asmine(kb, c) == [i \in 1 .. Len(kb) |-> Sentence_mark_mine(kb[i], c)]

mark_safe_all(kb, c) == [i \in 1 .. Len(kb) |-> Sentence_mark_safe(kb[i], c)]

\* The k-th pair (i, j) visited by the two nested range() loops of step 3
LoopCell(c, k) == << c[1] - 1 + ((k - 1) \div 3), c[2] - 1 + ((k - 1) % 3) >>

\* Step 3's loop with the bounds test written `<=` instead of `<`
RECURSIVE Step3_offbyone(_, _, _, _, _, _)
Step3_offbyone(k, c, nb, n, ms, ss) ==
    IF k > 9 THEN [neighbors |-> nb, count |-> n]
    ELSE LET x == LoopCell(c, k) IN
         IF x = c THEN Step3_offbyone(k + 1, c, nb, n, ms, ss)
         ELSE IF 0 <= x[1] /\ x[1] <= Height /\ 0 <= x[2] /\ x[2] <= Width
              THEN IF x \in ms THEN Step3_offbyone(k + 1, c, nb, n - 1, ms, ss)
                   ELSE IF x \notin ss THEN Step3_offbyone(k + 1, c, nb \cup {x}, n, ms, ss)
                   ELSE Step3_offbyone(k + 1, c, nb, n, ms, ss)
              ELSE Step3_offbyone(k + 1, c, nb, n, ms, ss)

\* Step 3's loop from its k-th iteration on: nb is the local `neighbors`,
\* n the local `count`; ms and ss are self.mines and self.safes.
RECURSIVE Step3(_, _, _, _, _, _)
Step3(k, c, nb, n, ms, ss) ==
    IF k > 9 THEN [neighbors |-> nb, count |-> n]
    ELSE LET x == LoopCell(c, k) IN
         IF x = c THEN Step3(k + 1, c, nb, n, ms, ss)
         ELSE IF 0 <= x[1] /\ x[1] < Height /\ 0 <= x[2] /\ x[2] < Width
              THEN IF x \in ms THEN Step3(k + 1, c, nb, n - 1, ms, ss)
                   ELSE IF x \notin ss THEN Step3(k + 1, c, nb \cup {x}, n, ms, ss)
                   ELSE Step3(k + 1, c, nb, n, ms, ss)
              ELSE Step3(k + 1, c, nb, n, ms, ss)

\* `inference in list`: list membership by Sentence.__eq__
InList(s, list) == \E i \in 1 .. Len(list) : Sentence_eq(list[i], s)

\* The inference with the counts subtracted the wrong way round
Inference_swapped(s1, s2) == Sentence(s2.cells \ s1.cells, s1.count - s2.count)

\* The inference of one pair (s1, s2) of step 5
Inference(s1, s2) == Sentence(s2.cells \ s1.cells, s2.count - s1.count)

\* Step 5's loops without the `inference not in inferences` test
RECURSIVE Step5_nostaged(_, _, _)
Step5_nostaged(k, kb, inf) ==
    IF k >= Len(kb) * Len(kb) THEN inf
    ELSE LET s1 == kb[(k \div Len(kb)) + 1]
             s2 == kb[(k % Len(kb)) + 1]
         IN IF Sentence_eq(s1, s2) THEN Step5_nostaged(k + 1, kb, inf)
            ELSE IF s1.cells \subseteq s2.cells
                 THEN LET inference == Inference(s1, s2) IN
                      IF ~InList(inference, kb)
                      THEN Step5_nostaged(k + 1, kb, Append(inf, inference))
                      ELSE Step5_nostaged(k + 1, kb, inf)
                 ELSE Step5_nostaged(k + 1, kb, inf)

\* Step 5's nested loops over kb from the k-th pair on (k = 0 .. Len*Len - 1,
\* s1 the outer and s2 the inner loop variable); inf is the local `inferences`.
RECURSIVE Step5(_, _, _)
Step5(k, kb, inf) ==
    IF k >= Len(kb) * Len(kb) THEN inf
    ELSE LET s1 == kb[(k \div Len(kb)) + 1]
             s2 == kb[(k % Len(kb)) + 1]
         IN IF Sentence_eq(s1, s2) THEN Step5(k + 1, kb, inf)
            ELSE IF s1.cells \subseteq s2.cells
                 THEN LET inference == Inference(s1, s2) IN
                      IF ~InList(inference, inf) /\ ~InList(inference, kb)
                      THEN Step5(k + 1, kb, Append(inf, inference))
                      ELSE Step5(k + 1, kb, inf)
                 ELSE Step5(k + 1, kb, inf)

\* mark_safe / mark_mine called for every cell of a set, one after the other
RECURSIVE MarkSafes(_, _)
MarkSafes(kb, S) ==
    IF S = {} THEN kb
    ELSE LET c == CHOOSE x \in S : TRUE
         IN MarkSafes(mark_safe_all(kb, c), S \ {c})

RECURSIVE MarkMines(_, _)
MarkMines(kb, M) ==
    IF M = {} THEN kb
    ELSE LET c == CHOOSE x \in M : TRUE
         IN MarkMines(mark_mine_all(kb, c), M \ {c})

\* Step 4 as a whole, on an engine e = [safes, mines, knowledge]: each pass
\* collects allSafes and allMines, marks the cells of allSafes that are not in
\* safes, then those of allMines that are not in mines; the loop ends with the
\* first pass that marks nothing
RECURSIVE Step4(_)
Step4(e) ==
    LET aS   == UNION { known_safes(e.knowledge[i]) : i \in 1 .. Len(e.knowledge) }
        aM   == UNION { known_mines(e.knowledge[i]) : i \in 1 .. Len(e.knowledge) }
        newS == aS \ e.safes
        newM == aM \ e.mines
    IN IF newS = {} /\ newM = {} THEN e
       ELSE Step4([e EXCEPT !.safes = e.safes \cup newS,
                            !.mines = e.mines \cup newM,
                            !.knowledge = MarkMines(MarkSafes(e.knowledge, newS), newM)])

\* add_knowledge(c, n) on an engine e, from the call to the exit of the
\* while loop (steps 1 to 4; moves_made is not part of e)
add_knowledge_loop(e, c, n) ==
    LET ss == e.safes \cup {c}
        kb == mark_safe_all(e.knowledge, c)
        r  == Step3(1, c, {}, n, e.mines, ss)
    IN Step4([e EXCEPT !.safes = ss,
                       !.knowledge = IF r.neighbors # {}
                                     THEN Append(kb, Sentence(r.neighbors, r.count))
                                     ELSE kb])

\* add_knowledge(c, n) on an engine e, from call to return
add_knowledge_whole(e, c, n) ==
    LET f == add_knowledge_loop(e, c, n)
    IN [f EXCEPT !.knowledge = f.knowledge \o Step5(0, f.knowledge, << >>)]

\* The pruning policy: the Sentences of kb whose cell set is not empty
Prune(kb) == SelectSeq(kb, LAMBDA s : s.cells # {})

----------------------------------------------------------------------------
\* No call is being followed
NoStart == [cell |-> NoCell, count |-> 0, safes |-> {}, mines |-> {}, knowledge |-> << >>]

\* State after Minesweeper(...) and MinesweeperAI(...) were constructed
Init ==
    /\ board \in { b \in SUBSET Cells : Cardinality(b) <= MaxMines }
    /\ moves_made = {}
    /\ mines = {}
    /\ safes = {}
    /\ knowledge = << >>
    /\ pc = "idle"
    /\ cell = NoCell
    /\ count = 0
    /\ updatesDone = FALSE
    /\ allSafes = {}
    /\ allMines = {}
    /\ inferences = << >>
    /\ calls = 0
    /\ raised = FALSE
    /\ last = [op |-> "none", arg |-> NoCell, again |-> FALSE]
    /\ ret = NoCell
    /\ pruned = [safes |-> {}, mines |-> {}, knowledge |-> << >>]
    /\ ttt = [board |-> initial_state, move |-> NoCall]
    /\ start = NoStart

\* add_knowledge that starts step 4 with `updatesDone = False`
add_knowledge_flagoff(c, n) ==
    /\ pc = "idle"
    /\ moves_made' = moves_made \cup {c}
    /\ safes' = safes \cup {c}
    /\ LET kb == mark_safe_all(knowledge, c)
           r  == Step3(1, c, {}, n, mines, safes \cup {c})
       IN knowledge' = IF r.neighbors # {}
                       THEN Append(kb, Sentence(r.neighbors, r.count))
                       ELSE kb
    /\ cell' = c
    /\ count' = n
    /\ updatesDone' = FALSE
    /\ calls' = calls + 1
    /\ pc' = "while"
    /\ last' = [op |-> "add_knowledge", arg |-> c, again |-> FALSE]
    /\ ret' = NoCell
    /\ UNCHANGED <<board, mines, allSafes, allMines, inferences, raised, pruned, ttt>>

\* add_knowledge without step 2, the call of self.mark_safe(cell)
add_knowledge_nomark(c, n) ==
    /\ pc = "idle"
    /\ moves_made' = moves_made \cup {c}
    /\ safes' = safes
    /\ LET kb == knowledge
           r  == Step3(1, c, {}, n, mines, safes)
       IN knowledge' = IF r.neighbors # {}
                       THEN Append(kb, Sentence(r.neighbors, r.count))
                       ELSE kb
    /\ cell' = c
    /\ count' = n
    /\ updatesDone' = TRUE
    /\ calls' = calls + 1
    /\ pc' = "while"
    /\ last' = [op |-> "add_knowledge", arg |-> c, again |-> FALSE]
    /\ ret' = NoCell
    /\ UNCHANGED <<board, mines, allSafes, allMines, inferences, raised, pruned, ttt>>

\* add_knowledge(c, n), steps 1 to 3, up to the entry of the while loop
add_knowledge(c, n) ==
    /\ pc = "idle"
    /\ moves_made' = moves_made \cup {c}
    /\ safes' = safes \cup {c}
    /\ LET kb == mark_safe_all(knowledge, c)
           r  == Step3(1, c, {}, n, mines, safes \cup {c})
       IN knowledge' = IF r.neighbors # {}
                       THEN Append(kb, Sentence(r.neighbors, r.count))
                       ELSE kb
    /\ cell' = c
    /\ count' = n
    /\ updatesDone' = TRUE
    /\ calls' = calls + 1
    /\ pc' = "while"
    /\ last' = [op |-> "add_knowledge", arg |-> c, again |-> FALSE]
    /\ ret' = NoCell
    /\ UNCHANGED <<board, mines, allSafes, allMines, inferences, raised, pruned, ttt>>

\* The game's call: a cell that is not a mine and was not revealed before,
\* with the count the board reports for it
Reveal ==
    /\ calls < MaxMoves
    /\ \E c \in Cells \ moves_made :
          /\ ~is_mine(c)
          /\ add_knowledge(c, nearby_mines(c))
    /\ UNCHANGED start

\* An arbitrary caller: any cell of the grid, any count
CallAny ==
    /\ calls < MaxCalls
    /\ \E c \in Cells, n \in 0 .. MaxCount : add_knowledge(c, n)
    /\ UNCHANGED start

\* MinesweeperAI.mark_mine(c), called from outside add_knowledge
mark_mine(c) ==
    /\ pc = "idle"
    /\ mines' = mines \cup {c}
    /\ knowledge' = mark_mine_all(knowledge, c)
    /\ calls' = calls + 1
    /\ last' = Call("mark_mine", c)
    /\ ret' = NoCell
    /\ UNCHANGED <<board, moves_made, safes, pc, cell, count, updatesDone,
                   allSafes, allMines, inferences, raised, pruned, ttt, start>>

\* mark_safe that also withdraws the cell from mines
mark_safe_unmine(c) ==
    /\ pc = "idle"
    /\ safes' = safes \cup {c}
    /\ mines' = mines \ {c}
    /\ knowledge' = mark_safe_all(knowledge, c)
    /\ calls' = calls + 1
    /\ last' = Call("mark_safe", c)
    /\ ret' = NoCell
    /\ UNCHANGED <<board, moves_made, pc, cell, count, updatesDone,
                   allSafes, allMines, inferences, raised, pruned, ttt, start>>

\* MinesweeperAI.mark_safe(c), called from outside add_knowledge
mark_safe(c) ==
    /\ pc = "idle"
    /\ safes' = safes \cup {c}
    /\ knowledge' = mark_safe_all(knowledge, c)
    /\ calls' = calls + 1
    /\ last' = Call("mark_safe", c)
    /\ ret' = NoCell
    /\ UNCHANGED <<board, moves_made, mines, pc, cell, count, updatesDone,
                   allSafes, allMines, inferences, raised, pruned, ttt, start>>

\* An arbitrary caller marks any cell of the grid
CallMark ==
    /\ calls < MaxCalls
    /\ \E c \in Cells : mark_mine(c) \/ mark_safe(c)

\* The caller makes the mark call it has just made once more
RepeatMark ==
    /\ ~last.again
    /\ \/ last.op = "mark_mine" /\ mark_mine(last.arg)
       \/ last.op = "mark_safe" /\ mark_safe(last.arg)

\* make_safe_move that forgets the `not in self.moves_made` test
make_safe_move_any ==
    /\ pc = "idle"
    /\ \/ \E c \in safes : ret' = c
       \/ safes = {} /\ ret' = NoCell
    /\ last' = [op |-> "make_safe_move", arg |-> NoCell, again |-> FALSE]
    /\ UNCHANGED <<board, moves_made, mines, safes, knowledge, pc, cell, count,
                   updatesDone, allSafes, allMines, inferences, calls, raised, pruned, ttt, start>>

\* make_safe_move(): `for cell in self.safes` visits the set in an order the
\* caller does not control, so the first cell that is not in moves_made can
\* be any such cell; None when the loop finds none
make_safe_move ==
    /\ pc = "idle"
    /\ \/ \E c \in safes : c \notin moves_made /\ ret' = c
       \/ (\A c \in safes : c \in moves_made) /\ ret' = NoCell
    /\ last' = [op |-> "make_safe_move", arg |-> NoCell, again |-> FALSE]
    /\ UNCHANGED <<board, moves_made, mines, safes, knowledge, pc, cell, count,
                   updatesDone, allSafes, allMines, inferences, calls, raised, pruned, ttt, start>>

\* The local validMoves of make_random_move
validMoves == (Cells \ mines) \ moves_made

\* make_random_move that forgets to subtract self.mines
make_random_move_mines ==
    /\ pc = "idle"
    /\ IF Cells \ moves_made # {}
       THEN ret' \in Cells \ moves_made
       ELSE ret' = NoCell
    /\ last' = [op |-> "make_random_move", arg |-> NoCell, again |-> FALSE]
    /\ UNCHANGED <<board, moves_made, mines, safes, knowledge, pc, cell, count,
                   updatesDone, allSafes, allMines, inferences, calls, raised, pruned, ttt, start>>

\* make_random_move that records the move it returns
make_random_move_record ==
    /\ pc = "idle"
    /\ IF validMoves # {}
       THEN ret' \in validMoves /\ moves_made' = moves_made \cup {ret'}
       ELSE ret' = NoCell /\ moves_made' = moves_made
    /\ last' = [op |-> "make_random_move", arg |-> NoCell, again |-> FALSE]
    /\ UNCHANGED <<board, mines, safes, knowledge, pc, cell, count,
                   updatesDone, allSafes, allMines, inferences, calls, raised, pruned, ttt, start>>

\* make_random_move(): random.choice over validMoves, None when it is empty
make_random_move ==
    /\ pc = "idle"
    /\ IF validMoves # {}
       THEN ret' \in validMoves
       ELSE ret' = NoCell
    /\ last' = [op |-> "make_random_move", arg |-> NoCell, again |-> FALSE]
    /\ UNCHANGED <<board, moves_made, mines, safes, knowledge, pc, cell, count,
                   updatesDone, allSafes, allMines, inferences, calls, raised, pruned, ttt, start>>

\* A set object handed to the caller: its value, and whether it is the very
\* object that the Sentence keeps in self.cells
SetObject(v, shared) == [value |-> v, alias |-> shared]

\* known_mines called on the Sentence knowledge[i] that returns self.cells
\* itself instead of a copy
Sentence_known_mines_nocopy(i) ==
    /\ pc = "idle"
    /\ i \in 1 .. Len(knowledge)
    /\ ret' = IF Cardinality(knowledge[i].cells) = knowledge[i].count
              THEN SetObject(knowledge[i].cells, TRUE)
              ELSE SetObject({}, FALSE)
    /\ last' = [op |-> "known_mines", arg |-> NoCell, again |-> FALSE]
    /\ UNCHANGED <<board, moves_made, mines, safes, knowledge, pc, cell, count,
                   updatesDone, allSafes, allMines, inferences, calls, raised, pruned, ttt, start>>

\* known_mines() called on the Sentence knowledge[i]: `self.cells.copy()` and
\* `set()` are both new objects
Sentence_known_mines(i) ==
    /\ pc = "idle"
    /\ i \in 1 .. Len(knowledge)
    /\ ret' = SetObject(known_mines(knowledge[i]), FALSE)
    /\ last' = [op |-> "known_mines", arg |-> NoCell, again |-> FALSE]
    /\ UNCHANGED <<board, moves_made, mines, safes, knowledge, pc, cell, count,
                   updatesDone, allSafes, allMines, inferences, calls, raised, pruned, ttt, start>>

\* known_safes() called on the Sentence knowledge[i]
Sentence_known_safes(i) ==
    /\ pc = "idle"
    /\ i \in 1 .. Len(knowledge)
    /\ ret' = SetObject(known_safes(knowledge[i]), FALSE)
    /\ last' = [op |-> "known_safes", arg |-> NoCell, again |-> FALSE]
    /\ UNCHANGED <<board, moves_made, mines, safes, knowledge, pc, cell, count,
                   updatesDone, allSafes, allMines, inferences, calls, raised, pruned, ttt, start>>

\* The caller adds a cell to, or removes a cell from, the set object it was
\* handed by known_mines / known_safes on knowledge[i]; a Sentence that
\* shares the object sees the change
MutateReturned(i) ==
    /\ pc = "idle"
    /\ last.op \in {"known_mines", "known_safes"}
    /\ \E c \in Cells :
          LET v == IF c \in ret.value THEN ret.value \ {c} ELSE ret.value \cup {c}
          IN /\ ret' = [ret EXCEPT !.value = v]
             /\ knowledge' = IF ret.alias
                             THEN [knowledge EXCEPT ![i].cells = v]
                             ELSE knowledge
    /\ last' = [op |-> "mutate", arg |-> NoCell, again |-> FALSE]
    /\ UNCHANGED <<board, moves_made, mines, safes, pc, cell, count,
                   updatesDone, allSafes, allMines, inferences, calls, raised, pruned, ttt, start>>

\* Where control is once the two for loops have as and am left to visit:
\* in the first loop, in the second, or back at the while test
LoopPc(as, am) == IF as # {} THEN "safes" ELSE IF am # {} THEN "mines" ELSE "while"

\* WhileTest that forgets `updatesDone = False`
WhileTest_noreset ==
    /\ pc = "while"
    /\ updatesDone
    /\ allSafes' = UNION { known_safes(knowledge[i]) : i \in 1 .. Len(knowledge) }
    /\ allMines' = UNION { known_mines(knowledge[i]) : i \in 1 .. Len(knowledge) }
    /\ pc' = LoopPc(allSafes', allMines')
    /\ UNCHANGED <<board, moves_made, mines, safes, knowledge, cell, count,
                   inferences, calls, raised, updatesDone, last, ret, pruned, ttt, start>>

\* `while updatesDone:` taken: reset the flag and collect allSafes, allMines
WhileTest ==
    /\ pc = "while"
    /\ updatesDone
    /\ updatesDone' = FALSE
    /\ allSafes' = UNION { known_safes(knowledge[i]) : i \in 1 .. Len(knowledge) }
    /\ allMines' = UNION { known_mines(knowledge[i]) : i \in 1 .. Len(knowledge) }
    /\ pc' = LoopPc(allSafes', allMines')
    /\ UNCHANGED <<board, moves_made, mines, safes, knowledge, cell, count,
                   inferences, calls, raised, last, ret, pruned, ttt, start>>

\* One iteration of `for safe_cell in allSafes` (a set: any order)
ForSafes ==
    /\ pc = "safes"
    /\ \E safe_cell \in allSafes :
          /\ allSafes' = allSafes \ {safe_cell}
          /\ IF safe_cell \notin safes
             THEN /\ safes' = safes \cup {safe_cell}
                  /\ knowledge' = mark_safe_all(knowledge, safe_cell)
                  /\ updatesDone' = TRUE
             ELSE UNCHANGED <<safes, knowledge, updatesDone>>
    /\ pc' = LoopPc(allSafes', allMines)
    /\ UNCHANGED <<board, moves_made, mines, cell, count, allMines,
                   inferences, calls, raised, last, ret, pruned, ttt, start>>

\* ForMines that forgets `updatesDone = True`
ForMines_noflag ==
    /\ pc = "mines"
    /\ \E mine_cell \in allMines :
          /\ allMines' = allMines \ {mine_cell}
          /\ IF mine_cell \notin mines
             THEN /\ mines' = mines \cup {mine_cell}
                  /\ knowledge' = mark_mine_all(knowledge, mine_cell)
             ELSE UNCHANGED <<mines, knowledge>>
    /\ pc' = LoopPc({}, allMines')
    /\ UNCHANGED <<board, moves_made, safes, cell, count, allSafes,
                   inferences, calls, raised, updatesDone, last, ret, pruned, ttt, start>>

\* One iteration of `for mine_cell in allMines` (a set: any order)
ForMines ==
    /\ pc = "mines"
    /\ \E mine_cell \in allMines :
          /\ allMines' = allMines \ {mine_cell}
          /\ IF mine_cell \notin mines
             THEN /\ mines' = mines \cup {mine_cell}
                  /\ knowledge' = mark_mine_all(knowledge, mine_cell)
                  /\ updatesDone' = TRUE
             ELSE UNCHANGED <<mines, knowledge, updatesDone>>
    /\ pc' = LoopPc({}, allMines')
    /\ UNCHANGED <<board, moves_made, safes, cell, count, allSafes,
                   inferences, calls, raised, last, ret, pruned, ttt, start>>

\* `while updatesDone:` not taken: step 5 and the return of add_knowledge
Infer ==
    /\ pc = "while"
    /\ ~updatesDone
    /\ inferences' = Step5(0, knowledge, << >>)
    /\ knowledge' = knowledge \o inferences'
    /\ pc' = "idle"
    /\ UNCHANGED <<board, moves_made, mines, safes, cell, count, updatesDone,
                   allSafes, allMines, calls, raised, last, ret, pruned, ttt, start>>

Next ==
    \/ Reveal
    \/ WhileTest
    \/ ForSafes
    \/ ForMines
    \/ Infer

\* The engine driven by a game with a fixed board
Spec == Init /\ [][Next]_vars

NextAny ==
    \/ CallAny
    \/ WhileTest
    \/ ForSafes
    \/ ForMines
    \/ Infer

\* The engine alone: the board plays no part, the caller supplies the counts
InitAny ==
    /\ Init
    /\ board = {}

\* The engine driven by an arbitrary caller
SpecAny == InitAny /\ [][NextAny]_vars

NextMarks ==
    \/ CallAny
    \/ CallMark
    \/ RepeatMark
    \/ WhileTest
    \/ ForSafes
    \/ ForMines
    \/ Infer

\* The engine driven by an arbitrary caller of add_knowledge, mark_mine and
\* mark_safe
SpecMarks == InitAny /\ [][NextMarks]_vars

\* The last call asked for a move
Asked == last.op \in {"make_safe_move", "make_random_move"}

\* Between two add_knowledge calls the caller asks for a move
AskMove ==
    /\ ~Asked
    /\ make_safe_move \/ make_random_move

\* Told that no safe move is known, the caller asks for a random one
AskRandom ==
    /\ last.op = "make_safe_move"
    /\ ret = NoCell
    /\ make_random_move

\* The caller reveals the cell it was given and reports a count for it
PlayMove ==
    /\ calls < MaxCalls
    /\ Asked
    /\ ret # NoCell
    /\ \E n \in 0 .. MaxCount : add_knowledge(ret, n)
    /\ UNCHANGED start

\* The caller reports a cell of its own choice
PlayAny ==
    /\ ~Asked
    /\ CallAny

NextQuery ==
    \/ PlayAny
    \/ AskMove
    \/ AskRandom
    \/ PlayMove
    \/ WhileTest
    \/ ForSafes
    \/ ForMines
    \/ Infer

\* The engine driven by a caller of add_knowledge who may ask for a move
\* between the calls: the states of the engine are those of SpecAny, and in
\* each of them make_safe_move and make_random_move are called
SpecQuery == InitAny /\ [][NextQuery]_vars

\* A Sentence constructed on its own by Sentence(cells, count), for any set
\* of cells of the grid and any count from 0 to the number of cells; it is
\* kept as the one element of knowledge
InitSentence ==
    /\ knowledge \in { << Sentence(cs, n) >> :
                            <<cs, n>> \in { p \in (SUBSET Cells) \X (0 .. Height * Width) :
                                             p[2] <= Cardinality(p[1]) } }
    /\ board = {}
    /\ moves_made = {}
    /\ mines = {}
    /\ safes = {}
    /\ pc = "idle"
    /\ cell = NoCell
    /\ count = 0
    /\ updatesDone = FALSE
    /\ allSafes = {}
    /\ allMines = {}
    /\ inferences = << >>
    /\ calls = 0
    /\ raised = FALSE
    /\ last = [op |-> "none", arg |-> NoCell, again |-> FALSE]
    /\ ret = NoCell
    /\ pruned = [safes |-> {}, mines |-> {}, knowledge |-> << >>]
    /\ ttt = [board |-> initial_state, move |-> NoCall]
    /\ start = NoStart

NextSentence ==
    \/ Sentence_known_mines(1)
    \/ Sentence_known_safes(1)
    \/ MutateReturned(1)

\* The two queries of a Sentence, and a caller that changes what they return
SpecSentence == InitSentence /\ [][NextSentence]_vars

\* The game's call run from call to return as one step, on the engine (f is
\* its state at the exit of the while loop) and on the pruning engine (p is
\* its state at the return), which then drops its empty Sentences
RevealWhole ==
    /\ pc = "idle"
    /\ calls < MaxMoves
    /\ \E c \in Cells \ moves_made :
          /\ ~is_mine(c)
          /\ \E n \in { nearby_mines(c) } :
             \E f \in { add_knowledge_loop([safes |-> safes, mines |-> mines,
                                             knowledge |-> knowledge], c, n) } :
             \E p \in { add_knowledge_whole(pruned, c, n) } :
                /\ moves_made' = moves_made \cup {c}
                /\ safes' = f.safes
                /\ mines' = f.mines
                /\ inferences' = Step5(0, f.knowledge, << >>)
                /\ knowledge' = f.knowledge \o inferences'
                /\ pruned' = [p EXCEPT !.knowledge = Prune(p.knowledge)]
                /\ cell' = c
                /\ count' = n
                /\ last' = [op |-> "add_knowledge", arg |-> c, again |-> FALSE]
    /\ calls' = calls + 1
    /\ updatesDone' = FALSE
    /\ ret' = NoCell
    /\ UNCHANGED <<board, pc, allSafes, allMines, raised, ttt, start>>

\* The game played, call for call, on the engine and on the pruning engine
SpecPrune == Init /\ [][RevealWhole]_vars

\* The next statement of the call that is running (pc tells which)
CallStep ==
    \/ WhileTest
    \/ ForSafes
    \/ ForMines
    \/ Infer

\* The program is single-threaded: a call that has started keeps executing
\* its statements until it returns.  Nothing forces the caller to make
\* another call.
Fairness == WF_vars(CallStep)

\* The arbitrary caller, with the running call always making progress
SpecAnyFair == SpecAny /\ Fairness

----------------------------------------------------------------------------
\* add_knowledge(c, n) called by an arbitrary caller, the arguments and the
\* engine it is called on being noted
CallNoted ==
    /\ calls < MaxCalls
    /\ \E c \in Cells, n \in 0 .. MaxCount :
          /\ add_knowledge(c, n)
          /\ start' = [cell |-> c, count |-> n, safes |-> safes, mines |-> mines,
                       knowledge |-> knowledge]

NextOrder ==
    \/ CallNoted
    \/ WhileTest
    \/ ForSafes
    \/ ForMines
    \/ Infer

\* The engine driven by an arbitrary caller, each call compared with the
\* state it started from
SpecOrder == InitAny /\ [][NextOrder]_vars

----------------------------------------------------------------------------
\* A game of tic-tac-toe: the players move in turn from the empty
\* board, and minimax is asked for a move on the board of the moment.

minesweeper == <<board, moves_made, mines, safes, knowledge, pc, cell, count,
                 updatesDone, allSafes, allMines, inferences, calls, raised,
                 last, ret, pruned, start>>

\* board = ttt.result(board, move), for a legal move
Play ==
    /\ ~terminal(ttt.board)
    /\ \E action \in actions(ttt.board) :
          ttt' = [board |-> result(ttt.board, action), move |-> NoCall]
    /\ UNCHANGED minesweeper

\* move = ttt.minimax(board), once on a board
Minimax ==
    /\ ttt.move = NoCall
    /\ Cardinality(actions(ttt.board)) <= MaxEmpty
    /\ \E r \in minimax(ttt.board) : ttt' = [board |-> r.board, move |-> r.move]
    /\ UNCHANGED minesweeper

NextTTT == Play \/ Minimax

SpecTTT == InitAny /\ [][NextTTT]_vars

----------------------------------------------------------------------------
\* Properties

\* The Sentences held when the while loop of the last call exited, i.e. the
\* knowledge base without the inferences step 5 appended
HeldBeforeInfer == 1 .. (Len(knowledge) - Len(inferences))

\* C1 (soundness): no cell is in both safes and mines, every cell in mines
\* holds a mine on the board and no cell in safes does.
C1_Soundness ==
    /\ safes \cap mines = {}
    /\ mines \subseteq board
    /\ safes \cap board = {}

C1_Witness ==
    /\ pc = "idle"
    /\ mines # {}
    /\ safes \ moves_made # {}

\* C2 (well-formedness): every Sentence of the knowledge base has
\* 0 <= count <= |cells|, in every state of every call.
C2_WellFormed ==
    \A i \in 1 .. Len(knowledge) :
        /\ 0 <= knowledge[i].count
        /\ knowledge[i].count <= Cardinality(knowledge[i].cells)

\* mark_mine and mark_safe have shrunk the Sentences and one that still
\* constrains unknown cells is held
C2_Witness ==
    /\ mines # {}
    /\ safes \ moves_made # {}
    /\ \E i \in 1 .. Len(knowledge) :
          knowledge[i].cells # {} /\ knowledge[i].count > 0

\* C3: when add_knowledge has returned, no Sentence of the knowledge base
\* contains a cell that is in safes or in mines.
C3_NoKnownCells ==
    pc = "idle" =>
        \A i \in 1 .. Len(knowledge) : knowledge[i].cells \cap (safes \cup mines) = {}

\* A call has returned with a mine known and with a Sentence about other
\* cells still held
C3_Witness ==
    /\ pc = "idle"
    /\ mines # {}
    /\ \E i \in 1 .. Len(knowledge) : knowledge[i].cells # {}

\* C4: the knowledge base never holds two structurally equal Sentences.
C4_NoDuplicates ==
    \A i, j \in 1 .. Len(knowledge) :
        i # j => ~(knowledge[i].cells = knowledge[j].cells
                   /\ knowledge[i].count = knowledge[j].count)

\* C5 as claimed: when add_knowledge has returned, no Sentence of the
\* knowledge base, those added by step 5 included, yields a cell that is not
\* yet in safes (count = 0) or in mines (count = |cells|).
C5_FixpointAll ==
    pc = "idle" =>
        \A i \in 1 .. Len(knowledge) :
            /\ (knowledge[i].count = 0 => knowledge[i].cells \subseteq safes)
            /\ (knowledge[i].count = Cardinality(knowledge[i].cells)
                    => knowledge[i].cells \subseteq mines)

\* C5 as amended: when add_knowledge has returned, no Sentence that was held
\* when the while loop exited (all but those step 5 appended in this call)
\* yields a cell that is not yet in safes or in mines.
C5_FixpointHeld ==
    pc = "idle" =>
        \A i \in HeldBeforeInfer :
            /\ (knowledge[i].count = 0 => knowledge[i].cells \subseteq safes)
            /\ (knowledge[i].count = Cardinality(knowledge[i].cells)
                    => knowledge[i].cells \subseteq mines)

\* A call has returned, the Sentences held at the loop exit still constrain
\* unknown cells, and step 5 appended a Sentence that decides its cells
C5_Witness ==
    /\ pc = "idle"
    /\ \E i \in HeldBeforeInfer : knowledge[i].cells # {}
    /\ \E k \in 1 .. Len(inferences) :
          inferences[k].cells # {} /\ inferences[k].count = 0

Abs(x) == IF x < 0 THEN -x ELSE x

\* The cells of the grid at Chebyshev distance 1 from c
Adjacent(c) ==
    { x \in Cells :
        (IF Abs(x[1] - c[1]) > Abs(x[2] - c[2])
         THEN Abs(x[1] - c[1]) ELSE Abs(x[2] - c[2])) = 1 }

\* The step that starts a call (steps 1 to 3 of add_knowledge)
CallStarts == pc = "idle" /\ pc' = "while"

\* The step that runs step 5 and returns
InferStep == pc = "while" /\ pc' = "idle"

\* The step appended a Sentence
Appended == Len(knowledge') = Len(knowledge) + 1

\* C6: a call whose count is smaller than the number of neighbours of the
\* cell already in mines ends in an error and appends no Sentence with a
\* negative count.
C6_NegativeCountRaises ==
    [][ (CallStarts /\ count' < Cardinality(Adjacent(cell') \cap mines))
            => /\ raised'
               /\ ~(Appended /\ knowledge'[Len(knowledge')].count < 0) ]_vars

\* C7: a call on a cell that is already in moves_made ends in an error.
C7_ReobservationRaises ==
    [][ (CallStarts /\ cell' \in moves_made) => raised' ]_vars

\* C8: the Sentence built in step 3 has as cells the adjacent cells that are
\* in neither mines nor safes (cell itself already marked safe) and as count
\* the reported count minus the number of adjacent cells in mines; it is
\* appended iff its cell set is non-empty, and nothing else is appended.
C8_NewSentence ==
    [][ CallStarts =>
          LET cs == { x \in Adjacent(cell') : x \notin mines' /\ x \notin safes' }
              n  == count' - Cardinality(Adjacent(cell') \cap mines')
          IN IF cs # {}
             THEN /\ Appended
                  /\ knowledge'[Len(knowledge')] = [cells |-> cs, count |-> n]
             ELSE Len(knowledge') = Len(knowledge) ]_vars

\* A call has just built and appended a Sentence whose count was adjusted
\* for a known mine
C8_Witness ==
    /\ pc = "while"
    /\ updatesDone
    /\ Adjacent(cell) \cap mines # {}
    /\ Len(knowledge) > 0
    /\ knowledge[Len(knowledge)] =
          [cells |-> Adjacent(cell) \ (mines \cup safes),
           count |-> count - Cardinality(Adjacent(cell) \cap mines)]
    /\ knowledge[Len(knowledge)].cells # {}

\* The candidates of a resolution pass over the list kb
Candidates(kb) ==
    { [cells |-> kb[j].cells \ kb[i].cells, count |-> kb[j].count - kb[i].count] :
        <<i, j>> \in { p \in (1 .. Len(kb)) \X (1 .. Len(kb)) :
                        /\ kb[p[1]] # kb[p[2]]
                        /\ kb[p[1]].cells \subseteq kb[p[2]].cells } }

\* C9: step 5 appends exactly the candidates that are not equal to a Sentence
\* already held, each once, and leaves the Sentences held before unchanged.
C9_ResolutionPass ==
    [][ InferStep =>
          LET new   == Candidates(knowledge) \ { knowledge[i] : i \in 1 .. Len(knowledge) }
              added == SubSeq(knowledge', Len(knowledge) + 1, Len(knowledge'))
          IN /\ Len(knowledge') >= Len(knowledge)
             /\ SubSeq(knowledge', 1, Len(knowledge)) = knowledge
             /\ { added[i] : i \in 1 .. Len(added) } = new
             /\ Len(added) = Cardinality(new) ]_vars

\* The pairs of positions of the list kb that yield a candidate
SubsetPairs(kb) ==
    { p \in (1 .. Len(kb)) \X (1 .. Len(kb)) :
        /\ kb[p[1]] # kb[p[2]]
        /\ kb[p[1]].cells \subseteq kb[p[2]].cells }

\* A resolution pass over three or more Sentences has appended a Sentence
\* that two different pairs yield: staged for the first, skipped for the second
C9_Witness ==
    /\ pc = "idle"
    /\ Len(knowledge) - Len(inferences) >= 3
    /\ LET held == SubSeq(knowledge, 1, Len(knowledge) - Len(inferences))
       IN \E p, q \in SubsetPairs(held) :
             /\ p # q
             /\ held[p[2]].cells \ held[p[1]].cells = held[q[2]].cells \ held[q[1]].cells
             /\ held[p[2]].count - held[p[1]].count = held[q[2]].count - held[q[1]].count
             /\ \E k \in 1 .. Len(inferences) :
                    /\ inferences[k].cells = held[p[2]].cells \ held[p[1]].cells
                    /\ inferences[k].count = held[p[2]].count - held[p[1]].count

\* s is true in the layout L: count is the number of mines among cells
TrueIn(s, L) == s.count = Cardinality(s.cells \cap L)

\* C10 (resolution soundness): for Sentences A, B that step 5 finds in the
\* knowledge base with A.cells a subset of B.cells and every layout L in
\* which both are true (L
\* restricted to B.cells, the only cells the three Sentences mention), the
\* inference of (A, B) is true in L, its known_safes() hold no mine of L and
\* its known_mines() only mines of L.
C10_ResolutionSound ==
    (pc = "while" /\ ~updatesDone) =>
        \A i, j \in 1 .. Len(knowledge) :
            knowledge[i].cells \subseteq knowledge[j].cells =>
                \A L \in SUBSET knowledge[j].cells :
                    (TrueIn(knowledge[i], L) /\ TrueIn(knowledge[j], L)) =>
                        LET r == Inference(knowledge[i], knowledge[j])
                        IN /\ TrueIn(r, L)
                           /\ known_safes(r) \cap L = {}
                           /\ known_mines(r) \subseteq L

\* Step 5 has appended the inference of two Sentences that some layout
\* satisfies, and the inference decides its cells
C10_Witness ==
    /\ pc = "idle"
    /\ \E k \in 1 .. Len(inferences) :
        \E i, j \in HeldBeforeInfer :
            /\ knowledge[i] # knowledge[j]
            /\ knowledge[i].cells # {}
            /\ knowledge[i].cells \subseteq knowledge[j].cells
            /\ inferences[k] = Inference(knowledge[i], knowledge[j])
            /\ known_safes(inferences[k]) \cup known_mines(inferences[k]) # {}
            /\ \E L \in SUBSET knowledge[j].cells :
                    TrueIn(knowledge[i], L) /\ TrueIn(knowledge[j], L)

\* C11 (termination): every add_knowledge call returns (at every moment the
\* engine is or will again be between calls).  The flag that keeps
\* the while loop going is set only by a step that puts a new cell into safes
\* or into mines, the loop body is entered only with the flag set, and a call
\* that reaches the while test with the flag clear returns.
C11_Terminates ==
    /\ [][ /\ (pc # "idle" /\ ~updatesDone /\ updatesDone')
                => (\/ (safes \subseteq safes' /\ safes' # safes /\ mines' = mines)
                    \/ (mines \subseteq mines' /\ mines' # mines /\ safes' = safes))
           /\ (pc = "while" /\ pc' # "idle") => updatesDone
           /\ (pc = "while" /\ ~updatesDone) => pc' = "idle" ]_vars
    /\ []<>(pc = "idle")

\* A call whose passes have marked safe cells and mines is at the while test
\* with the flag clear: the pass before marked nothing
C11_Witness ==
    /\ pc = "while"
    /\ ~updatesDone
    /\ mines # {}
    /\ safes \ moves_made # {}

\* C12 (monotonicity): over any sequence of add_knowledge, mark_safe and
\* mark_mine calls, and in every step inside them, safes, mines and moves_made
\* only grow.
C12_Monotone ==
    [][ /\ safes \subseteq safes'
        /\ mines \subseteq mines'
        /\ moves_made \subseteq moves_made' ]_vars

\* The three sets have grown, by add_knowledge and by a direct mark call
C12_Witness ==
    /\ last.op \in {"mark_mine", "mark_safe"}
    /\ moves_made # {}
    /\ mines # {}
    /\ safes \ moves_made # {}

\* C13: a Sentence held in the knowledge base (identified by its position in
\* the list, which only grows at its end) never gains a cell: after every
\* step it is still held and its cell set is a subset of what it was, so over
\* any number of steps a removed cell is not re-admitted.
C13_SentencesShrink ==
    [][ \A i \in 1 .. Len(knowledge) :
            /\ i <= Len(knowledge')
            /\ knowledge'[i].cells \subseteq knowledge[i].cells ]_vars

\* The one Sentence held was built by a call that knew nothing about the
\* neighbours, and a direct mark_safe of a neighbour has removed that cell
C13_Witness ==
    /\ last.op = "mark_safe"
    /\ last.arg \in Adjacent(cell)
    /\ safes = {cell, last.arg}
    /\ mines = {}
    /\ Len(knowledge) = 1
    /\ knowledge[1].cells = Adjacent(cell) \ {last.arg}
    /\ knowledge[1].cells # {}

\* The step is a call of make_safe_move / of make_random_move
SafeMoveStep == pc = "idle" /\ last'.op = "make_safe_move"

RandomMoveStep == pc = "idle" /\ last'.op = "make_random_move"

\* C14: make_safe_move returns a cell that is in safes and not in moves_made
\* whenever there is one, and None exactly when safes minus moves_made is
\* empty.
C14_SafeMove ==
    [][ SafeMoveStep =>
          IF safes \ moves_made # {}
          THEN ret' \in safes \ moves_made
          ELSE ret' = NoCell ]_vars

\* make_safe_move has returned a cell while safes also holds cells that were
\* moved to
C14_Witness ==
    /\ last.op = "make_safe_move"
    /\ ret \in safes \ moves_made
    /\ moves_made # {}
    /\ mines # {}

\* C15: make_random_move returns a cell of the grid that is neither in
\* moves_made nor in mines, every such cell is a possible result, and it
\* returns None exactly when there is no such cell.
C15_RandomMove ==
    /\ [][ RandomMoveStep =>
              IF (Cells \ moves_made) \ mines # {}
              THEN ret' \in (Cells \ moves_made) \ mines
              ELSE ret' = NoCell ]_vars
    /\ [](pc = "idle" =>
              \A c \in (Cells \ moves_made) \ mines :
                  ENABLED (make_random_move /\ ret' = c))

\* make_random_move has returned None: every cell of the grid is a known
\* mine or was moved to
C15_Witness ==
    /\ last.op = "make_random_move"
    /\ ret = NoCell
    /\ mines \cup moves_made = Cells
    /\ mines # {}

\* C16: make_safe_move and make_random_move are pure queries: they leave
\* safes, mines, moves_made and every Sentence of the knowledge base as they
\* were.
C16_QueriesPure ==
    [][ (SafeMoveStep \/ RandomMoveStep)
            => UNCHANGED <<safes, mines, moves_made, knowledge>> ]_vars

\* A move was asked for and returned while Sentences about unknown cells are
\* held and cells are known safe and known mines
C16_Witness ==
    /\ Asked
    /\ ret \in Cells
    /\ \E i \in 1 .. Len(knowledge) : knowledge[i].cells # {}
    /\ moves_made # {}
    /\ safes \cup mines # moves_made

\* C17: for a Sentence with 0 <= count <= |cells|, known_mines() returns
\* exactly cells when count = |cells| (the empty set when cells is empty) and
\* the empty set otherwise; known_safes() returns exactly cells when count = 0
\* and the empty set otherwise; neither call changes the Sentence, and a
\* change made to the returned set does not change it either.
C17_KnownCells ==
    [][ LET s == knowledge[1] IN
        (Len(knowledge) = 1 /\ 0 <= s.count /\ s.count <= Cardinality(s.cells)) =>
            /\ last'.op = "known_mines" =>
                  /\ ret'.value = (IF s.count = Cardinality(s.cells) THEN s.cells ELSE {})
                  /\ knowledge' = knowledge
            /\ last'.op = "known_safes" =>
                  /\ ret'.value = (IF s.count = 0 THEN s.cells ELSE {})
                  /\ knowledge' = knowledge
            /\ last'.op = "mutate" => knowledge' = knowledge ]_vars

\* known_mines() returned all the cells of a Sentence whose cells are all
\* mines, the caller removed a cell from the returned set, and the Sentence
\* still has it
C17_Witness ==
    /\ last.op = "mutate"
    /\ knowledge[1].cells # {}
    /\ knowledge[1].count = Cardinality(knowledge[1].cells)
    /\ ret.value \subseteq knowledge[1].cells
    /\ ret.value # knowledge[1].cells

\* C18 (idempotence): a mark_mine(c) or mark_safe(c) call that repeats the
\* call made just before it leaves mines, safes and every Sentence's cells
\* and count as the first call left them.
C18_MarkIdempotent ==
    [][ (pc = "idle" /\ last'.op \in {"mark_mine", "mark_safe"} /\ last'.again)
            => UNCHANGED <<mines, safes, knowledge>> ]_vars

\* mark_mine(c) was called twice in a row on a knowledge base whose Sentence
\* had c among its cells: the first call removed c and lowered the count
C18_Witness ==
    /\ last.op = "mark_mine"
    /\ last.again
    /\ last.arg \in Adjacent(cell)
    /\ Len(knowledge) = 1
    /\ knowledge[1] = [cells |-> Adjacent(cell) \ {last.arg}, count |-> count - 1]
    /\ knowledge[1].cells # {}

\* C19: whenever the resolution pass of a call finds two held Sentences A, B
\* with A.cells a strict subset of B.cells and equal counts, the Sentence
\* (B.cells - A.cells, 0) is appended by that pass and so held when the call
\* returns; and when the following call returns, the cells of every Sentence
\* with count 0 that the pass before appended (`inferences` still holds them
\* until this step) are all in safes.
C19_EqualCountsSafe ==
    [][ InferStep =>
          /\ \A i, j \in 1 .. Len(knowledge) :
                (/\ knowledge[i].cells \subseteq knowledge[j].cells
                 /\ knowledge[i].cells # knowledge[j].cells
                 /\ knowledge[i].count = knowledge[j].count)
                => /\ \E k \in 1 .. Len(inferences') :
                         inferences'[k] = [cells |-> knowledge[j].cells \ knowledge[i].cells,
                                           count |-> 0]
                   /\ \E k \in 1 .. Len(knowledge') :
                         knowledge'[k] = [cells |-> knowledge[j].cells \ knowledge[i].cells,
                                          count |-> 0]
          /\ \A k \in 1 .. Len(inferences) :
                inferences[k].count = 0 => inferences[k].cells \subseteq safes' ]_vars

\* The call after a resolution pass that appended a Sentence with count 0 is
\* about to return, and its propagation loop has put into safes cells of that
\* Sentence that were never revealed
C19_Witness ==
    /\ pc = "while"
    /\ ~updatesDone
    /\ \E k \in 1 .. Len(inferences) :
          /\ inferences[k].count = 0
          /\ inferences[k].cells \subseteq safes
          /\ inferences[k].cells \ moves_made # {}

\* The set of non-empty Sentences of the list kb
NonEmpty(kb) == { kb[i] : i \in { k \in 1 .. Len(kb) : kb[k].cells # {} } }

\* C20: after every call of a game, the engine, which keeps its empty
\* Sentences, and the engine that prunes them after each call have the same
\* safes, the same mines and the same set of non-empty Sentences.
C20_PruningHarmless ==
    /\ pruned.safes = safes
    /\ pruned.mines = mines
    /\ NonEmpty(pruned.knowledge) = NonEmpty(knowledge)

\* A call has returned after which the engine holds empty Sentences that the
\* pruning engine has dropped, next to Sentences about unknown cells, and a
\* mine is known
C20_Witness ==
    /\ calls > 1
    /\ Len(pruned.knowledge) < Len(knowledge)
    /\ Len(pruned.knowledge) > 0
    /\ mines # {}

\* The exhaustive minimax value of a board for the player to move: the
\* utility of a terminal board, and otherwise the largest (X to move) or
\* smallest (O to move) value of the boards one move away
RECURSIVE Value(_)
Value(b) ==
    IF terminal(b) THEN utility(b)
    ELSE LET vals == { Value(result(b, a)) : a \in actions(b) }
         IN IF player(b) = X
            THEN CHOOSE v \in vals : \A w \in vals : w <= v
            ELSE CHOOSE v \in vals : \A w \in vals : v <= w

\* A step in which minimax returns
MinimaxStep == ttt'.move # NoCall

\* C21: on every board reached by legal alternating play from the empty
\* board, minimax returns None when the board is terminal, and otherwise an
\* empty cell whose resulting board has the exhaustive minimax value of the
\* board; the board list is the same after the call as before it.
C21_MinimaxOptimal ==
    [][MinimaxStep =>
         /\ ttt'.board = ttt.board
         /\ IF terminal(ttt.board)
            THEN ttt'.move = NoCell
            ELSE /\ ttt'.move \in actions(ttt.board)
                 /\ Value(result(ttt.board, ttt'.move)) = Value(ttt.board)]_vars

\* minimax has returned a move on a board that is not terminal, where some
\* other legal move is worse for the player to move
C21_Witness ==
    /\ ttt.move \in actions(ttt.board)
    /\ \E a \in actions(ttt.board) : Value(result(ttt.board, a)) # Value(ttt.board)

\* C22: in a game, where every count reported is the number of mines around
\* the cell on one fixed board, every Sentence held between two add_knowledge
\* calls is true of the board: its count is the number of its cells that
\* hold a mine.
C22_SentencesTrue ==
    pc = "idle" =>
        \A i \in 1 .. Len(knowledge) :
            knowledge[i].count = Cardinality(knowledge[i].cells \cap board)

\* Several calls have returned, cells have been marked, and a Sentence is
\* held that has both a mine and a cell without a mine among its cells
C22_Witness ==
    /\ pc = "idle"
    /\ calls >= 2
    /\ mines # {}
    /\ \E i \in 1 .. Len(knowledge) :
          /\ knowledge[i].cells \cap board # {}
          /\ knowledge[i].cells \ board # {}

\* C23: whatever add_knowledge calls are made, every cell of moves_made is in
\* safes, from the state in which its call has marked it and in every later
\* state.
C23_MovesAreSafe == moves_made \subseteq safes

\* Two different cells have been observed, one of them after the engine had
\* it in mines, and the last call has returned
C23_Witness ==
    /\ pc = "idle"
    /\ Cardinality(moves_made) >= 2
    /\ moves_made \cap mines # {}

\* The lists a and b hold the same Sentences the same number of times
SameBag(a, b) ==
    \A s \in { a[i] : i \in 1 .. Len(a) } \cup { b[i] : i \in 1 .. Len(b) } :
        Cardinality({ i \in 1 .. Len(a) : a[i] = s })
            = Cardinality({ i \in 1 .. Len(b) : b[i] = s })

\* Step 5 with the pairs (s1, s2) of kb visited in the order ord, a list of
\* pairs of positions, from its k-th pair on
RECURSIVE Step5In(_, _, _, _)
Step5In(ord, k, kb, inf) ==
    IF k > Len(ord) THEN inf
    ELSE LET s1 == kb[ord[k][1]]
             s2 == kb[ord[k][2]]
         IN IF Sentence_eq(s1, s2) THEN Step5In(ord, k + 1, kb, inf)
            ELSE IF s1.cells \subseteq s2.cells
                 THEN LET inference == Inference(s1, s2) IN
                      IF ~InList(inference, inf) /\ ~InList(inference, kb)
                      THEN Step5In(ord, k + 1, kb, Append(inf, inference))
                      ELSE Step5In(ord, k + 1, kb, inf)
                 ELSE Step5In(ord, k + 1, kb, inf)

\* Orders in which all pairs of positions of a list of n Sentences can be
\* scanned: the list taken from any position round, forwards or backwards,
\* with either of s1 and s2 as the outer loop
ScanOrders(n) ==
    IF n = 0 THEN { << >> }
    ELSE { [k \in 1 .. n * n |->
              LET at(x) == IF o[2] THEN n - ((x + o[1]) % n) ELSE ((x + o[1]) % n) + 1
                  a == at((k - 1) \div n)
                  b == at((k - 1) % n)
              IN IF o[3] THEN <<b, a>> ELSE <<a, b>>] :
            o \in (0 .. n - 1) \X BOOLEAN \X BOOLEAN }

\* C24: add_knowledge is deterministic up to ordering.  When a call returns,
\* whatever order the cells of allSafes and allMines were marked in, safes
\* and mines are those that marking in one fixed order gives from the state
\* and the (cell, count) of the call, and the Sentences held are, as a
\* multiset, those that marking in that order and scanning the pairs of
\* Sentences in any of the orders of ScanOrders gives.
C24_OrderIndependent ==
    (pc = "idle" /\ start.cell # NoCell) =>
        \E f \in { add_knowledge_loop([safes |-> start.safes, mines |-> start.mines,
                                        knowledge |-> start.knowledge],
                                       start.cell, start.count) } :
            /\ safes = f.safes
            /\ mines = f.mines
            /\ \A ord \in ScanOrders(Len(f.knowledge)) :
                   SameBag(knowledge, f.knowledge \o Step5In(ord, 1, f.knowledge, << >>))

\* A call has returned in which step 4 marked two or more cells safe and a
\* mine, and step 5 appended an inference
C24_Witness ==
    /\ pc = "idle"
    /\ start.cell # NoCell
    /\ Cardinality((safes \ start.safes) \ {start.cell}) >= 2
    /\ mines # start.mines
    /\ inferences # << >>

====
